---- MODULE Spec2Model ----
(***************************************************************************)
(* Contract Matching & Decision Engine of Agentic-Claims-Demo.            *)
(*                                                                         *)
(* Python values are modelled as tagged records:                           *)
(*   None            [t |-> "none"]                                        *)
(*   Str(cs)         a str whose characters the code inspects; cs is the   *)
(*                   sequence of its characters                            *)
(*   Id(a)           a str the code only copies or interpolates            *)
(*   IntV(ds)        an int, ds the characters of its decimal form         *)
(*   List(xs)        a list                                                *)
(*   Dict(r)         a dict, r a record whose fields are its keys          *)
(*   ODict(r, o)     a dict iterated by the code, o its keys in order      *)
(*   Text(fs)        a str built by concatenation/formatting, fs the       *)
(*                   sequence of its fragments                             *)
(* Results built by the agents (always dicts) are plain records; a call    *)
(* that raises yields Raise(exc) instead of a result.                      *)
(***************************************************************************)
EXTENDS Integers, Sequences, FiniteSets, TLC

VARIABLES
    pc,          \* position of the call / pipeline being modelled
    claim,       \* the uploaded claim (run_pipeline's argument)
    intake,      \* result of claim_intake_agent
    pt_claim,    \* the claim handed to the matching and decision agents
    contract,    \* the contract handed to _evaluate_against_contract
    contracts,   \* the contract catalog handed to bundled_match_agent (CONTRACTS)
    match,       \* result of the evaluator / selector
    reco,        \* result of recommendation_agent
    decision,    \* the decision argument of provider_response_agent
    response     \* result of provider_response_agent

vars == <<pc, claim, intake, pt_claim, contract, contracts, match, reco, decision, response>>

----------------------------------------------------------------------------
(* Python values *)

None == [t |-> "none"]
Str(cs) == [t |-> "str", v |-> cs]
Id(a) == [t |-> "id", v |-> a]
IntV(ds) == [t |-> "int", v |-> ds]
List(xs) == [t |-> "list", v |-> xs]
Dict(r) == [t |-> "dict", v |-> r]
Text(fs) == [t |-> "text", v |-> fs]
\* a dict whose iteration order matters: order lists its keys as inserted
ODict(r, order) == [t |-> "dict", v |-> r, order |-> order]
EmptyDict == Dict(<<>>)
EmptyStr == Str(<<>>)

Raise(exc) == [exception |-> exc]
Raised(r) == "exception" \in DOMAIN r

\* bool(x): Python truthiness
Truthy(x) ==
    CASE x.t = "none" -> FALSE
      [] x.t = "str"  -> x.v # <<>>
      [] x.t = "id"   -> x.v # ""
      [] x.t = "int"  -> x.v # <<"0">>
      [] x.t = "list" -> x.v # <<>>
      [] x.t = "dict" -> DOMAIN x.v # {}
      [] x.t = "text" -> x.v # <<>>

\* x or y
Or(x, y) == IF Truthy(x) THEN x ELSE y

\* {**d, **e}: the keys of both, e's value where both have the key
Merge(d, e) == e @@ d

\* d.get(k, default) on a result record
Get(d, k, default) == IF k \in DOMAIN d THEN d[k] ELSE default

\* d.get(k, default) on a Python value known to be a dict
DictGet(d, k, default) == Get(d.v, k, default)

\* hasattr(x, "get"): only dicts have .get
HasGet(x) == x.t = "dict"

\* str(x) for the values whose characters matter
NoneChars == <<"N", "o", "n", "e">>
PyStr(x) ==
    CASE x.t = "none" -> NoneChars
      [] x.t = "str"  -> x.v
      [] x.t = "int"  -> x.v

----------------------------------------------------------------------------
(* str methods, on sequences of characters *)

LowerChars ==
    <<"a","b","c","d","e","f","g","h","i","j","k","l","m",
      "n","o","p","q","r","s","t","u","v","w","x","y","z">>
UpperChars ==
    <<"A","B","C","D","E","F","G","H","I","J","K","L","M",
      "N","O","P","Q","R","S","T","U","V","W","X","Y","Z">>
Whitespace == {" "}

IndexIn(seq, c) == CHOOSE i \in 1..Len(seq) : seq[i] = c
IsIn(seq, c) == \E i \in 1..Len(seq) : seq[i] = c

ToLower == [c \in {UpperChars[i] : i \in 1..Len(UpperChars)} |-> LowerChars[IndexIn(UpperChars, c)]]
ToUpper == [c \in {LowerChars[i] : i \in 1..Len(LowerChars)} |-> UpperChars[IndexIn(LowerChars, c)]]

LowerChar(c) == IF c \in DOMAIN ToLower THEN ToLower[c] ELSE c
UpperChar(c) == IF c \in DOMAIN ToUpper THEN ToUpper[c] ELSE c

\* s.lower(), s.upper()
Lower(s) == [i \in 1..Len(s) |-> LowerChar(s[i])]
Upper(s) == [i \in 1..Len(s) |-> UpperChar(s[i])]

\* s.strip()
RECURSIVE LStrip(_)
LStrip(s) == IF s # <<>> /\ Head(s) \in Whitespace THEN LStrip(Tail(s)) ELSE s
RECURSIVE RStrip(_)
RStrip(s) ==
    IF s # <<>> /\ s[Len(s)] \in Whitespace THEN RStrip(SubSeq(s, 1, Len(s) - 1)) ELSE s
Strip(s) == RStrip(LStrip(s))

\* s.replace(old, new) for single characters
Replace(s, old, new) == [i \in 1..Len(s) |-> IF s[i] = old THEN new ELSE s[i]]

\* s.split(): the maximal runs of non-whitespace characters, in order
RECURSIVE SplitFrom(_, _, _)
SplitFrom(s, i, cur) ==
    IF i > Len(s) THEN (IF cur = <<>> THEN <<>> ELSE <<cur>>)
    ELSE IF s[i] \in Whitespace
         THEN (IF cur = <<>> THEN <<>> ELSE <<cur>>) \o SplitFrom(s, i + 1, <<>>)
         ELSE SplitFrom(s, i + 1, Append(cur, s[i]))
Split(s) == SplitFrom(s, 1, <<>>)

\* a in c  (substring test)
In(a, c) == \E i \in 0..(Len(c) - Len(a)) : SubSeq(c, i + 1, i + Len(a)) = a

Range(seq) == {seq[i] : i \in 1..Len(seq)}

----------------------------------------------------------------------------
(* agents/bundled_match.py *)

physical_therapy ==
    <<"p","h","y","s","i","c","a","l"," ","t","h","e","r","a","p","y">>
pt ==
    <<"p","t">>
pt_rehab ==
    <<"p","t"," ","r","e","h","a","b">>
therapy ==
    <<"t","h","e","r","a","p","y">>
rehab ==
    <<"r","e","h","a","b">>
physiotherapy ==
    <<"p","h","y","s","i","o","t","h","e","r","a","p","y">>
post_op_rehab ==
    <<"p","o","s","t","-","o","p"," ","r","e","h","a","b">>
influenza_vaccine ==
    <<"i","n","f","l","u","e","n","z","a"," ","v","a","c","c","i","n","e">>
flu_shot ==
    <<"f","l","u"," ","s","h","o","t">>
flu_vaccine ==
    <<"f","l","u"," ","v","a","c","c","i","n","e">>
influenza_immunization ==
    <<"i","n","f","l","u","e","n","z","a"," ","i","m","m","u","n","i","z","a","t","i","o","n">>

\* the dict as its set of items (base, syns)
SERVICE_SYNONYMS ==
    { [base |-> physical_therapy,
       syns |-> {pt, pt_rehab, therapy, rehab, physiotherapy, post_op_rehab}],
      [base |-> influenza_vaccine,
       syns |-> {flu_shot, flu_vaccine, influenza_immunization}] }

\* _tokens(s), s a str
_tokens(s) == Split(Replace(Lower(s), "_", " "))

\* the alias set when line 21 tests only s == base: a synonym is not expanded
Aliases_BaseOnly(s) ==
    {s} \cup UNION { {g.base} \cup g.syns : g \in {h \in SERVICE_SYNONYMS : s = h.base} }

\* the alias set built by lines 19-22
Aliases(s) ==
    {s} \cup UNION { {g.base} \cup g.syns : g \in {h \in SERVICE_SYNONYMS : s = h.base \/ s \in h.syns} }

\* line 27 without its token test
AliasHits_SubstringOnly(a, c) == In(a, c) \/ In(c, a)

\* the test of line 27 for one alias and one normalised covered label
AliasHits(a, c) ==
    In(a, c) \/ In(c, a) \/ (Range(_tokens(a)) \cap Range(_tokens(c)) # {})

\* the loop of lines 24-29: the covered labels some alias hits, in list order
RECURSIVE MatchedIn(_, _)
MatchedIn(aliases, covered_norm) ==
    IF covered_norm = <<>> THEN <<>>
    ELSE (IF \E a \in aliases : AliasHits(a, Head(covered_norm))
          THEN <<Head(covered_norm)>> ELSE <<>>)
         \o MatchedIn(aliases, Tail(covered_norm))

\* line 23: str(c or "").strip().lower() for each covered entry
CoveredNorm(covered) ==
    [i \in 1..Len(covered) |-> Lower(Strip(PyStr(Or(covered[i], EmptyStr))))]

\* _service_in_bundle(service, covered): service a str, covered a list of values;
\* returns the pair (bool, matched)
_service_in_bundle(service, covered) ==
    LET s == Lower(Strip(service))
    IN  IF s = <<>> THEN <<FALSE, <<>>>>
        ELSE LET matched == MatchedIn(Aliases(s), CoveredNorm(covered))
             IN  <<Len(matched) > 0, matched>>

MatchSystemPrompt ==
    "Compare the submitted claim's service and CPT against the bundled payment contract. Determine if this claim's service is already covered under an active episode (e.g., post-op physical therapy after a knee surgery) and capture matching evidence."

\* the parsed result when line 60 leaves the matched CPT out of matched_terms
EvaluationResult_NoCptTerm(plan_name, plan_id, product_type, contract_id, episode_code, covered_services, covered_cpts, service, cpt, cpt_in, svc) ==
    [ status |-> "ok",
      plan_name |-> plan_name,
      plan_id |-> plan_id,
      product_type |-> product_type,
      contract_id |-> contract_id,
      episode_code |-> episode_code,
      service |-> service,
      cpt |-> cpt,
      is_in_bundle |-> (cpt_in \/ svc[1]),
      matched_terms |-> svc[2],
      evidence |-> Text(<<Id("Matched by CPT or service under "), episode_code, Id(".")>>),
      debug |-> [ covered_services |-> covered_services,
                  covered_cpts |-> covered_cpts,
                  svc_match |-> svc[1],
                  cpt_match |-> cpt_in,
                  svc_matched_terms |-> svc[2] ] ]

\* lines 63-108: the parsed result, and the returned dict {**parsed, "trace": trace}
EvaluationResult(plan_name, plan_id, product_type, contract_id, episode_code, covered_services, covered_cpts, service, cpt, cpt_in, svc) ==
    [ status |-> "ok",
      plan_name |-> plan_name,
      plan_id |-> plan_id,
      product_type |-> product_type,
      contract_id |-> contract_id,
      episode_code |-> episode_code,
      service |-> service,
      cpt |-> cpt,
      is_in_bundle |-> (cpt_in \/ svc[1]),
      matched_terms |-> svc[2] \o (IF cpt_in THEN <<cpt>> ELSE <<>>),
      evidence |-> Text(<<Id("Matched by CPT or service under "), episode_code, Id(".")>>),
      debug |-> [ covered_services |-> covered_services,
                  covered_cpts |-> covered_cpts,
                  svc_match |-> svc[1],
                  cpt_match |-> cpt_in,
                  svc_matched_terms |-> svc[2] ] ]

WithMatchTrace(parsed) ==
    Merge(parsed,
          [ trace |->
              [ system_prompt |-> MatchSystemPrompt,
                user_input |->
                  [ claim |-> [service |-> parsed.service, cpt |-> parsed.cpt],
                    contract |->
                      [ plan |-> [payer |-> parsed.plan_name, plan_id |-> parsed.plan_id,
                                  product_type |-> parsed.product_type],
                        provider_agreement |-> [provider_contract_id |-> parsed.contract_id],
                        episode |-> [ episode_code |-> parsed.episode_code,
                                      covered_services |-> parsed.debug.covered_services,
                                      covered_cpts |-> parsed.debug.covered_cpts ] ] ],
                model_output |-> "Deterministic match; no model output.",
                parsed |-> parsed ] ])

\* lines 56-57 onwards, the fields of lines 42-53 being read
EvaluateFields(plan_name, plan_id, product_type, contract_id, episode_code, covered_services, covered_cpts, service, cpt) ==
    WithMatchTrace(
        EvaluationResult(plan_name, plan_id, product_type, contract_id, episode_code,
                         covered_services, covered_cpts, service, cpt,
                         cpt # <<>> /\ cpt \in Range(covered_cpts),
                         _service_in_bundle(service, covered_services.v)))

\* line 49: [str(c) for c in ...]
StrEach(xs) == [i \in 1..Len(xs) |-> PyStr(xs[i])]

\* lines 42-53, the sections of lines 38-40 being read; a section that is not
\* a dict has no .get
EvaluateSections(c, plan, prov, ep) ==
    IF ~HasGet(plan) \/ ~HasGet(prov) \/ ~HasGet(ep) THEN Raise("AttributeError")
    ELSE EvaluateFields(
            DictGet(plan, "payer", Id("")),
            DictGet(plan, "plan_id", Id("")),
            DictGet(plan, "product_type", Id("")),
            DictGet(prov, "provider_contract_id", Id("UNKNOWN")),
            DictGet(ep, "episode_code", Id("")),
            Or(DictGet(ep, "covered_services", List(<<>>)), List(<<>>)),
            StrEach(Or(DictGet(ep, "covered_cpts", List(<<>>)), List(<<>>)).v),
            Lower(Strip(Or(DictGet(c, "service", None), EmptyStr).v)),
            PyStr(Or(DictGet(c, "cpt", None), EmptyStr)))

\* _evaluate_against_contract(pt_claim, contract): the returned dict, or
\* Raise("AttributeError") where an attribute lookup on a non-dict fails
_evaluate_against_contract(c, k) ==
    IF ~HasGet(k) THEN Raise("AttributeError")
    ELSE EvaluateSections(c, DictGet(k, "plan", EmptyDict),
                          DictGet(k, "provider_agreement", EmptyDict),
                          DictGet(k, "episode", EmptyDict))

\* contracts.values(), in insertion order
Values(d) == [i \in 1..Len(d.order) |-> d.v[d.order[i]]]

\* the sort key of line 145
RankKey(r) == <<Get(r, "is_in_bundle", FALSE), Len(Get(r, "matched_terms", <<>>))>>

\* tuple order on keys (False < True, then the counts)
KeyLess(a, b) == (~a[1] /\ b[1]) \/ (a[1] = b[1] /\ a[2] < b[2])

\* the sort without reverse=True: ascending
RECURSIVE InsertDesc_Ascending(_, _)
InsertDesc_Ascending(sorted, r) ==
    IF sorted = <<>> THEN <<r>>
    ELSE IF KeyLess(RankKey(r), RankKey(Head(sorted))) THEN <<r>> \o sorted
    ELSE <<Head(sorted)>> \o InsertDesc_Ascending(Tail(sorted), r)

\* a descending sort that puts a later element before earlier ones of equal key
RECURSIVE InsertDesc_TiesLast(_, _)
InsertDesc_TiesLast(sorted, r) ==
    IF sorted = <<>> THEN <<r>>
    ELSE IF ~KeyLess(RankKey(r), RankKey(Head(sorted))) THEN <<r>> \o sorted
    ELSE <<Head(sorted)>> \o InsertDesc_TiesLast(Tail(sorted), r)

\* list.sort(key=..., reverse=True): descending, equal keys keep their order
RECURSIVE InsertDesc(_, _)
InsertDesc(sorted, r) ==
    IF sorted = <<>> THEN <<r>>
    ELSE IF KeyLess(RankKey(Head(sorted)), RankKey(r)) THEN <<r>> \o sorted
    ELSE <<Head(sorted)>> \o InsertDesc(Tail(sorted), r)
RECURSIVE SortDesc(_)
SortDesc(rs) ==
    IF rs = <<>> THEN <<>>
    ELSE InsertDesc(SortDesc(SubSeq(rs, 1, Len(rs) - 1)), rs[Len(rs)])

\* one more evaluation ahead of the later ones; the first exception wins
ConsEvaluation(r, rest) ==
    IF Raised(r) THEN r
    ELSE IF Raised(rest) THEN rest
    ELSE [results |-> <<r>> \o rest.results]

\* the list comprehensions of lines 120 and 122: [results |-> the evaluations
\* in order], or the exception of the first evaluation that raises
RECURSIVE EvaluateAll(_, _)
EvaluateAll(c, items) ==
    IF items = <<>> THEN [results |-> <<>>]
    ELSE ConsEvaluation(_evaluate_against_contract(c, Head(items)), EvaluateAll(c, Tail(items)))

NoContractsPrompt ==
    "Compare the submitted claim's service and CPT against the bundled payment contract. Determine if the claim is part of an active episode and capture matching evidence."

\* the synthetic result without its trace: the bare parsed record is returned
NoContractsResult_Untraced(c) ==
    [ status |-> "error",
      reason |-> "no_contracts",
      is_in_bundle |-> FALSE,
      contract_id |-> Id("UNKNOWN"),
      matched_terms |-> <<>>,
      evidence |-> Id("No contracts supplied.") ]

\* the synthetic result of lines 124-142
NoContractsResult(c) ==
    LET parsed ==
            [ status |-> "error",
              reason |-> "no_contracts",
              is_in_bundle |-> FALSE,
              contract_id |-> Id("UNKNOWN"),
              matched_terms |-> <<>>,
              evidence |-> Id("No contracts supplied.") ]
        trace ==
            [ system_prompt |-> NoContractsPrompt,
              user_input |-> [claim |-> c, contracts |-> "U+2205"],
              model_output |-> "No contracts available to evaluate.",
              parsed |-> parsed ]
    IN  Merge(parsed, [trace |-> trace])

\* line 116: isinstance(contracts, dict) and "contract_id" in contracts
IsFlatContract(ks) == ks.t = "dict" /\ "contract_id" \in DOMAIN ks.v

\* the contracts evaluated by lines 119-122
Candidates(ks) == IF ks.t = "dict" THEN Values(ks) ELSE Or(ks, List(<<>>)).v

\* lines 124-146 without the test of line 124: results[0] of an empty list
BestOf_NoEmptyCheck(c, all) ==
    IF Raised(all) THEN all
    ELSE IF all.results = <<>> THEN Raise("IndexError")
    ELSE SortDesc(all.results)[1]

\* lines 124-146: the no-contracts result, or the head of the sorted results
BestOf(c, all) ==
    IF Raised(all) THEN all
    ELSE IF all.results = <<>> THEN NoContractsResult(c)
    ELSE SortDesc(all.results)[1]

\* bundled_match_agent(pt_claim, contracts): the returned dict, or the
\* exception an evaluation raised
bundled_match_agent(c, ks) ==
    IF IsFlatContract(ks) THEN _evaluate_against_contract(c, ks)
    ELSE BestOf(c, EvaluateAll(c, Candidates(ks)))

----------------------------------------------------------------------------
(* agents/claim_intake.py *)

c_97110 ==
    <<"9","7","1","1","0">>
c_97112 ==
    <<"9","7","1","1","2">>
c_90686 ==
    <<"9","0","6","8","6">>

CPT_TO_SERVICE ==
    [c \in {c_97110, c_97112, c_90686} |->
        IF c = c_90686 THEN influenza_vaccine ELSE physical_therapy]

IsStr(x) == x.t \in {"str", "id", "text"}

\* _first_line_cpt(lines): the value, or Raise where lines[0] has no .get
_first_line_cpt(lines) ==
    IF lines.t = "list" /\ lines.v # <<>>
    THEN (IF HasGet(lines.v[1]) THEN DictGet(lines.v[1], "cpt", None)
          ELSE Raise("AttributeError"))
    ELSE None

\* the chain a or b or f(): f is only called when a and b are falsy
OrElseFirstLine(a, b, lines) ==
    IF Truthy(a) THEN a ELSE IF Truthy(b) THEN b ELSE _first_line_cpt(lines)

\* _canon_service(claim): the label (a str), or Raise
_canon_service(c) ==
    LET svc == Strip(Or(Or(Or(DictGet(c, "service", None), DictGet(c, "description", None)),
                           DictGet(c, "procedure", None)), EmptyStr).v)
        cpt == OrElseFirstLine(DictGet(c, "cpt", None), DictGet(c, "cpt_code", None),
                               Or(DictGet(c, "lines", None), List(<<>>)))
    IN  IF svc # <<>> THEN Str(svc)
        ELSE IF Raised(cpt) THEN cpt
        ELSE IF ~Truthy(cpt) THEN EmptyStr
        ELSE IF PyStr(cpt) \in DOMAIN CPT_TO_SERVICE THEN Str(CPT_TO_SERVICE[PyStr(cpt)])
        ELSE EmptyStr

\* one kept line of _coerce_lines: a copy with its cpt stringified
CoerceLine(ln) ==
    IF "cpt" \in DOMAIN ln.v /\ ln.v.cpt # None
    THEN Dict(Merge(ln.v, [cpt |-> Str(PyStr(ln.v.cpt))]))
    ELSE ln

RECURSIVE CoerceEach(_)
CoerceEach(lns) ==
    IF lns = <<>> THEN <<>>
    ELSE (IF Head(lns).t = "dict" THEN <<CoerceLine(Head(lns))>> ELSE <<>>)
         \o CoerceEach(Tail(lns))

\* _coerce_lines(lines)
_coerce_lines(lines) == IF lines.t # "list" THEN List(<<>>) ELSE List(CoerceEach(lines.v))

\* normalize_claim(claim): the normalized dict, or Raise
normalize_claim(c) ==
    LET lines == _coerce_lines(DictGet(c, "lines", None))
        diag0 == Or(Or(DictGet(c, "diagnosis", None), DictGet(c, "dx", None)), List(<<>>))
        diagnosis == IF IsStr(diag0) THEN List(<<diag0>>) ELSE diag0
        cpt0 == OrElseFirstLine(DictGet(c, "cpt", None), DictGet(c, "cpt_code", None), lines)
        top_cpt == IF cpt0 # None /\ cpt0 # EmptyStr THEN Str(PyStr(cpt0)) ELSE cpt0
        service == _canon_service(Dict(Merge([lines |-> lines], c.v)))
    IN  IF Raised(service) THEN service
        ELSE Dict(Merge([ claim_id |-> DictGet(c, "claim_id", None),
                          member_id |-> DictGet(c, "member_id", None),
                          provider_id |-> DictGet(c, "provider_id", None),
                          dos |-> DictGet(c, "dos", None),
                          diagnosis |-> diagnosis,
                          lines |-> lines,
                          cpt |-> top_cpt,
                          service |-> service ],
                        c.v))

IntakeSystemPrompt ==
    "Read and normalize the incoming claim. Extract and standardize key fields like member ID, service description, CPT, provider ID, and date of service. Ensure service names align with internal contract terminology for later matching."

\* claim_intake_agent(claim): the returned dict, or Raise
claim_intake_agent(c) ==
    LET normalized == normalize_claim(c)
    IN  IF Raised(normalized) THEN normalized
        ELSE
        LET note == Text(<<Id("Normalized claim "), DictGet(normalized, "claim_id", None),
                           Id(" with CPT "), DictGet(normalized, "cpt", None),
                           Id(" as service '"),
                           Or(DictGet(normalized, "service", None), Id("UNKNOWN")),
                           Id("'.")>>)
            trace == [ system_prompt |-> IntakeSystemPrompt,
                       user_input |-> c,
                       model_output |-> "Rule-based normalization; no model output.",
                       parsed |-> normalized ]
        IN  [ status |-> "ok",
              normalized_claim |-> normalized,
              notes |-> <<note>>,
              trace |-> trace ]

----------------------------------------------------------------------------
(* agents/recommendation.py *)

\* a float literal
Float(lit) == [t |-> "float", v |-> lit]

d_PAY ==
    <<"P","A","Y">>
d_REJECT ==
    <<"R","E","J","E","C","T">>
d_DENY ==
    <<"D","E","N","Y">>
d_ADJUST ==
    <<"A","D","J","U","S","T">>

RecoSystemPrompt ==
    "Based on the bundled match result, decide whether to PAY, REJECT, or DENY the claim. Provide a clear reason, citing contract terms and supporting evidence, so the decision can be reviewed by providers and internal audit teams."

\* lines 4-17
RecoSkipped(m) ==
    [ decision |-> Str(d_PAY),
      reason |-> Id("No applicable bundled episode for this plan/claim."),
      evidence |-> Get(m, "evidence", None),
      matched_terms |-> <<>>,
      contract_id |-> Get(m, "contract_id", None),
      plan_id |-> Get(m, "plan_id", None),
      plan_name |-> Get(m, "plan_name", None),
      product_type |-> Get(m, "product_type", None),
      episode_code |-> Get(m, "episode_code", None),
      trace |-> [bundled_match |-> m],
      confidence |-> Float("0.9") ]

\* the in-bundle branch with the skipped branch's empty matched_terms
RecoInBundle_NoTerms(m) ==
    [ decision |-> Str(d_REJECT),
      reason |-> Id("Service included in the episode bundle; bill under the episode."),
      evidence |-> Get(m, "evidence", None),
      matched_terms |-> <<>>,
      contract_id |-> Get(m, "contract_id", None),
      plan_id |-> Get(m, "plan_id", None),
      plan_name |-> Get(m, "plan_name", None),
      product_type |-> Get(m, "product_type", None),
      episode_code |-> Get(m, "episode_code", None),
      trace |-> [bundled_match |-> m],
      confidence |-> Float("0.9") ]

\* lines 18-31
RecoInBundle(m) ==
    [ decision |-> Str(d_REJECT),
      reason |-> Id("Service included in the episode bundle; bill under the episode."),
      evidence |-> Get(m, "evidence", None),
      matched_terms |-> Get(m, "matched_terms", <<>>),
      contract_id |-> Get(m, "contract_id", None),
      plan_id |-> Get(m, "plan_id", None),
      plan_name |-> Get(m, "plan_name", None),
      product_type |-> Get(m, "product_type", None),
      episode_code |-> Get(m, "episode_code", None),
      trace |-> [bundled_match |-> m],
      confidence |-> Float("0.9") ]

\* lines 32-45
RecoNotInBundle(m) ==
    [ decision |-> Str(d_PAY),
      reason |-> Id("Service not included in covered bundle terms."),
      evidence |-> Get(m, "evidence", None),
      matched_terms |-> Get(m, "matched_terms", <<>>),
      contract_id |-> Get(m, "contract_id", None),
      plan_id |-> Get(m, "plan_id", None),
      plan_name |-> Get(m, "plan_name", None),
      product_type |-> Get(m, "product_type", None),
      episode_code |-> Get(m, "episode_code", None),
      trace |-> [bundled_match |-> m],
      confidence |-> Float("0.9") ]

\* the decision table with the in-bundle test ahead of the skipped test
RecoParsed_BundleFirst(m) ==
    IF Get(m, "is_in_bundle", FALSE) THEN RecoInBundle(m)
    ELSE IF Get(m, "status", "") = "skipped" THEN RecoSkipped(m)
    ELSE RecoNotInBundle(m)

\* the decision table taking every status other than "ok" for skipped
RecoParsed_NonOkSkipped(m) ==
    IF Get(m, "status", "") # "ok" THEN RecoSkipped(m)
    ELSE IF Get(m, "is_in_bundle", FALSE) THEN RecoInBundle(m)
    ELSE RecoNotInBundle(m)

\* the branch taken by lines 4, 18 and 32
RecoParsed(m) ==
    IF Get(m, "status", "") = "skipped" THEN RecoSkipped(m)
    ELSE IF Get(m, "is_in_bundle", FALSE) THEN RecoInBundle(m)
    ELSE RecoNotInBundle(m)

\* recommendation_agent(claim, match)
recommendation_agent(c, m) ==
    LET parsed == RecoParsed(m)
        trace ==
            [ system_prompt |-> RecoSystemPrompt,
              user_input |-> [claim |-> c, bundled_match |-> m],
              model_output |-> "Policy decision; no model output.",
              parsed |-> parsed ]
    IN  Merge(parsed, [trace |-> trace])

----------------------------------------------------------------------------
(* agents/provider_response.py *)

VALID == {d_PAY, d_REJECT, d_DENY, d_ADJUST}

\* str + str, on Text values
Cat(a, b) == Text(a.v \o b.v)
Lit(a) == Text(<<Id(a)>>)
\* an f-string field {x}
Fld(x) == Text(<<x>>)

\* s.strip() on a value: character-wise on Str; the literals and formatted
\* texts of this program neither begin nor end with whitespace
StripV(x) == IF x.t = "str" THEN Str(Strip(x.v)) ELSE x

\* ", ".join(items)
RECURSIVE Join(_)
Join(items) ==
    IF items = <<>> THEN Text(<<>>)
    ELSE IF Len(items) = 1 THEN Fld(Str(items[1]))
    ELSE Cat(Cat(Fld(Str(Head(items))), Lit(", ")), Join(Tail(items)))

\* the comprehension of line 6: the terms that are not blank
RECURSIVE NonBlank(_)
NonBlank(items) ==
    IF items = <<>> THEN <<>>
    ELSE (IF Strip(Head(items)) # <<>> THEN <<Head(items)>> ELSE <<>>) \o NonBlank(Tail(items))

\* _list_to_english(items), items a list of str
_list_to_english(items0) ==
    LET items == NonBlank(items0)
    IN  IF items = <<>> THEN Text(<<>>)
        ELSE IF Len(items) = 1 THEN Fld(Str(items[1]))
        ELSE Cat(Cat(Join(SubSeq(items, 1, Len(items) - 1)), Lit(", and ")),
                 Fld(Str(items[Len(items)])))

DraftSystemPrompt ==
    "Draft a professional, easy-to-understand message for the provider explaining the decision. Include contract references, matched service/CPT, and guidance for future submissions."

\* line 14 without .upper()
EffectiveDecision_NoUpper(r, dec) ==
    Or(Or(Or(dec, Get(r, "decision", None)), Get(r, "outcome", None)), EmptyStr).v

\* line 14: (decision or reco.get("decision") or reco.get("outcome") or "").upper()
EffectiveDecision(r, dec) ==
    Upper(Or(Or(Or(dec, Get(r, "decision", None)), Get(r, "outcome", None)), EmptyStr).v)

\* lines 15-34
DraftError(r, dec) ==
    LET parsed ==
            [ status |-> "error",
              reason |-> "missing_or_invalid_decision",
              message |-> "Recommendation did not include a valid decision (PAY/REJECT/DENY/ADJUST).",
              decision |-> IF dec # <<>> THEN Str(dec) ELSE None,
              reco |-> r ]
        trace ==
            [ system_prompt |-> DraftSystemPrompt,
              user_input |-> r,
              model_output |-> parsed.message,
              parsed |-> parsed ]
    IN  Merge(parsed, [trace |-> trace])

\* lines 36-96
DraftOk(r, dec) ==
    LET plan_name == Or(Get(r, "plan_name", None), Id("the member's health plan"))
        plan_id == Or(Get(r, "plan_id", None), Id("the member's plan"))
        product == Or(Get(r, "product_type", None), Id("PPO"))
        episode_code == Or(Get(r, "episode_code", None), Id("the bundled episode"))
        contract_id == Or(Get(r, "contract_id", None), Id("the applicable provider agreement"))
        ev == StripV(Or(Get(r, "evidence", None), Id("")))
        terms == _list_to_english(Get(r, "matched_terms", <<>>))
        short_reason == StripV(Or(Get(r, "reason", None), Id("")))
        WhenEv(prefix) == IF Truthy(ev) THEN Cat(Lit(prefix), Fld(ev)) ELSE Text(<<>>)
        WhenTerms(prefix) ==
            IF Truthy(terms) THEN Cat(Cat(Lit(prefix), terms), Lit(".")) ELSE Text(<<>>)
        pay_draft ==
            Cat(Cat(Text(<<Id("Approved for payment. The billed service is not part of the bundled coverage defined under "),
                           plan_name, Id(" "), product, Id(" (Plan "), plan_id, Id("). ")>>),
                    IF Truthy(short_reason) THEN Cat(Fld(short_reason), Lit(" ")) ELSE Text(<<>>)),
                WhenEv("Supporting note: "))
        deny_draft ==
            Cat(Cat(Text(<<Id("This claim has been denied because the billed service is included in "),
                           episode_code, Id(" under "), plan_name, Id(" "), product,
                           Id(" (Plan "), plan_id, Id(") and provider agreement "), contract_id,
                           Id(". Per contract terms, services that are part of the episode should not be billed separately. Please bill this service under the episode claim or submit a corrected claim.")>>),
                    WhenTerms(" Matched bundle terms/CPTs: ")),
                WhenEv(" Supporting note: "))
        adjust_draft ==
            Cat(Cat(Text(<<Id("This service falls under "), episode_code, Id(" for "), plan_name,
                           Id(" (Plan "), plan_id,
                           Id("). The claim will be adjusted per contract terms and allowed amounts for the bundled episode.")>>),
                    WhenTerms(" Relevant matched terms/CPTs: ")),
                WhenEv(" Supporting note: "))
        draft ==
            IF dec = d_PAY THEN pay_draft
            ELSE IF dec \in {d_REJECT, d_DENY} THEN deny_draft
            ELSE adjust_draft
        next_action ==
            IF dec = d_PAY THEN "Queue for payment and notify provider of approval."
            ELSE IF dec \in {d_REJECT, d_DENY}
            THEN "Return claim to provider with denial explanation and contract reference. Advise resubmission under the bundled episode (or corrected billing)."
            ELSE "Apply contract adjustment and notify provider of revised allowed amount."
        parsed == [status |-> "ok", decision |-> Str(dec), draft |-> draft,
                   next_action |-> next_action]
        trace ==
            [ system_prompt |-> DraftSystemPrompt,
              user_input |-> r,
              model_output |-> draft,
              parsed |-> parsed ]
    IN  Merge(parsed, [trace |-> trace])

\* provider_response_agent(reco, decision)
provider_response_agent(r, dec) ==
    LET d == EffectiveDecision(r, dec)
    IN  IF d \notin VALID THEN DraftError(r, d) ELSE DraftOk(r, d)

----------------------------------------------------------------------------
(* Inputs: labels, claims and contracts the calls are exercised on *)

s_PT_Rehab ==
    <<"P","T"," ","R","e","h","a","b">>
s_office_visit ==
    <<"o","f","f","i","c","e"," ","v","i","s","i","t">>
s_Physical_Therapy_padded ==
    <<" "," ","P","h","y","s","i","c","a","l"," ","T","h","e","r","a","p","y"," ">>
s_knee_surgery ==
    <<"k","n","e","e","_","s","u","r","g","e","r","y">>
s_Flu_Shot ==
    <<"F","l","u"," ","S","h","o","t">>
s_xray ==
    <<"x","-","r","a","y">>
s_CPT_97110 ==
    <<"C","P","T"," ","9","7","1","1","0">>
s_Influenza_Vaccine ==
    <<"I","n","f","l","u","e","n","z","a"," ","V","a","c","c","i","n","e">>
s_Knee_Surgery ==
    <<"K","n","e","e"," ","S","u","r","g","e","r","y">>
s_post_op_rehab_us ==
    <<"p","o","s","t","_","o","p"," ","r","e","h","a","b">>
s_office ==
    <<"o","f","f","i","c","e">>
s_dme ==
    <<"d","u","r","a","b","l","e"," ","m","e","d","i","c","a","l"," ","e","q","u","i","p","m","e","n","t">>
c_99213 ==
    <<"9","9","2","1","3">>
c_42 ==
    <<"4","2">>
d_pay ==
    <<"p","a","y">>
d_Reject ==
    <<"R","e","j","e","c","t">>
d_adjust ==
    <<"a","d","j","u","s","t">>
d_underscore ==
    <<"_">>
d_HOLD ==
    <<"H","O","L","D">>
d_pay_padded ==
    <<" ","P","A","Y">>
d_approve ==
    <<"a","p","p","r","o","v","e">>

\* claims as the evaluator receives them: every service value with every cpt value
EvalServices ==
    { None, EmptyStr, Str(s_PT_Rehab), Str(s_office_visit), Str(s_Flu_Shot),
      Str(s_Physical_Therapy_padded), Str(s_knee_surgery), Str(s_xray), Str(s_CPT_97110) }
EvalCpts ==
    { None, EmptyStr, Str(c_97110), Str(c_99213), IntV(c_97110), Str(NoneChars) }
EvalClaims ==
    { Dict([service |-> s, cpt |-> c]) : s \in EvalServices, c \in EvalCpts }
      \cup { Dict([cpt |-> c]) : c \in EvalCpts }
      \cup { Dict([service |-> s]) : s \in EvalServices }
      \cup { EmptyDict }

PlanAcme == Dict([payer |-> Id("Acme Health"), plan_id |-> Id("PPO-100"), product_type |-> Id("PPO")])
PlanZen == Dict([payer |-> Id("Zen Mutual"), plan_id |-> Id("HMO-7"), product_type |-> Id("HMO")])

\* scenario 1 of the specification: physical therapy after knee surgery
K_pt ==
    Dict([ plan |-> PlanAcme,
           provider_agreement |-> Dict([provider_contract_id |-> Id("PC-001")]),
           episode |-> Dict([ episode_code |-> Id("EP-KNEE"),
                              covered_services |-> List(<<Str(physical_therapy)>>),
                              covered_cpts |-> List(<<Str(c_97110)>>) ]) ])
\* same coverage as K_pt under another agreement: ties with K_pt
K_pt2 ==
    Dict([ plan |-> PlanZen,
           provider_agreement |-> Dict([provider_contract_id |-> Id("PC-002")]),
           episode |-> Dict([ episode_code |-> Id("EP-HIP"),
                              covered_services |-> List(<<Str(pt_rehab)>>),
                              covered_cpts |-> List(<<IntV(c_97110)>>) ]) ])
K_flu ==
    Dict([ plan |-> PlanZen,
           provider_agreement |-> Dict([provider_contract_id |-> Id("PC-003")]),
           episode |-> Dict([ episode_code |-> Id("EP-FLU"),
                              covered_services |-> List(<<Str(s_Influenza_Vaccine)>>),
                              covered_cpts |-> List(<<IntV(c_90686)>>) ]) ])
K_knee ==
    Dict([ plan |-> PlanAcme,
           provider_agreement |-> Dict([provider_contract_id |-> Id("PC-004")]),
           episode |-> Dict([ episode_code |-> Id("EP-KNEE-FULL"),
                              covered_services |->
                                  List(<<Str(s_Knee_Surgery), Str(s_post_op_rehab_us),
                                         Str(s_Physical_Therapy_padded)>>),
                              covered_cpts |-> List(<<Str(c_97110), Str(c_97112)>>) ]) ])
K_office ==
    Dict([ plan |-> PlanAcme,
           provider_agreement |-> Dict([provider_contract_id |-> Id("PC-005")]),
           episode |-> Dict([ episode_code |-> Id("EP-OFFICE"),
                              covered_services |-> List(<<Str(s_office), Str(s_dme)>>),
                              covered_cpts |-> List(<<>>) ]) ])
\* a procedure code listed among the covered service labels
K_codes ==
    Dict([ plan |-> PlanAcme,
           provider_agreement |-> Dict([provider_contract_id |-> Id("PC-009")]),
           episode |-> Dict([ episode_code |-> Id("EP-CODES"),
                              covered_services |-> List(<<Str(c_97110), Str(physical_therapy)>>),
                              covered_cpts |-> List(<<Str(c_97110)>>) ]) ])
\* null and non-string list entries
K_entries ==
    Dict([ plan |-> PlanAcme,
           provider_agreement |-> Dict([provider_contract_id |-> Id("PC-006")]),
           episode |-> Dict([ episode_code |-> Id("EP-MIXED"),
                              covered_services |-> List(<<None, IntV(c_42)>>),
                              covered_cpts |-> List(<<None, EmptyStr, IntV(c_99213)>>) ]) ])
\* null lists, missing fields
K_nulllists ==
    Dict([ plan |-> Dict([payer |-> Id("Acme Health")]),
           provider_agreement |-> EmptyDict,
           episode |-> Dict([covered_services |-> None, covered_cpts |-> None]) ])
\* no section at all
K_empty == EmptyDict
\* null sections
K_nullplan ==
    Dict([ plan |-> None,
           provider_agreement |-> Dict([provider_contract_id |-> Id("PC-007")]),
           episode |-> Dict([ episode_code |-> Id("EP-KNEE"),
                              covered_services |-> List(<<Str(physical_therapy)>>),
                              covered_cpts |-> List(<<Str(c_97110)>>) ]) ])
K_nullprov ==
    Dict([ plan |-> PlanAcme, provider_agreement |-> None, episode |-> EmptyDict ])
K_nullepisode ==
    Dict([ plan |-> PlanAcme,
           provider_agreement |-> Dict([provider_contract_id |-> Id("PC-008")]),
           episode |-> None ])

WellFormedContracts == {K_pt, K_pt2, K_flu, K_knee, K_office, K_codes}
DegradedContracts == {K_entries, K_nulllists, K_empty}
NullSectionContracts == {K_nullplan, K_nullprov, K_nullepisode}
EvalContracts == WellFormedContracts \cup DegradedContracts \cup NullSectionContracts

NoResult == [status |-> "none"]

----------------------------------------------------------------------------
(* A direct call of _evaluate_against_contract(pt_claim, contract) *)

InitEval ==
    /\ pc = "evaluate"
    /\ pt_claim \in EvalClaims
    /\ contract \in EvalContracts
    /\ claim = None
    /\ intake = NoResult
    /\ contracts = None
    /\ match = NoResult
    /\ reco = NoResult
    /\ decision = None
    /\ response = NoResult

EvaluateReturns ==
    /\ pc = "evaluate"
    /\ match' = _evaluate_against_contract(pt_claim, contract)
    /\ ~Raised(match')
    /\ pc' = "returned"
    /\ UNCHANGED <<claim, intake, pt_claim, contract, contracts, reco, decision, response>>

EvaluateRaises ==
    /\ pc = "evaluate"
    /\ match' = _evaluate_against_contract(pt_claim, contract)
    /\ Raised(match')
    /\ pc' = "raised"
    /\ UNCHANGED <<claim, intake, pt_claim, contract, contracts, reco, decision, response>>

NextEval == EvaluateReturns \/ EvaluateRaises

SpecEval == InitEval /\ [][NextEval]_vars

----------------------------------------------------------------------------
(* Properties of the evaluator, under SpecEval *)

\* a is a contiguous part of c
IsSubstring(a, c) ==
    \E i \in 1..(Len(c) + 1) : \E j \in (i - 1)..Len(c) : SubSeq(c, i, j) = a

Separators == {" ", "_"}

\* w is a maximal run of non-separator characters of the lower-cased s
IsToken(w, s) ==
    LET l == Lower(s)
    IN  \E i \in 1..Len(l) : \E j \in i..Len(l) :
          /\ SubSeq(l, i, j) = w
          /\ \A n \in i..j : l[n] \notin Separators
          /\ (i = 1 \/ l[i - 1] \in Separators)
          /\ (j = Len(l) \/ l[j + 1] \in Separators)

SharesToken(a, c) ==
    \E i \in 1..Len(a) : \E j \in i..Len(a) :
        IsToken(SubSeq(Lower(a), i, j), a) /\ IsToken(SubSeq(Lower(a), i, j), c)

SynonymGroups == { {g.base} \cup g.syns : g \in SERVICE_SYNONYMS }

\* the label itself and, when it belongs to a synonym group, the whole group
AliasesOf(label) == {label} \cup UNION { g \in SynonymGroups : label \in g }

\* the relation of C1 between a claim label and a covered label
LabelsRelated(label, cov) ==
    \E a \in AliasesOf(label) : IsSubstring(a, cov) \/ IsSubstring(cov, a) \/ SharesToken(a, cov)

\* the entries of a list field of the contract's episode section
EpisodeList(k, field) ==
    IF "episode" \in DOMAIN k.v /\ k.v.episode.t = "dict" /\ field \in DOMAIN k.v.episode.v
       /\ k.v.episode.v[field].t = "list"
    THEN Range(k.v.episode.v[field].v)
    ELSE {}

\* the claim's CPT as a string, empty when absent
ClaimCpt(c) ==
    IF "cpt" \in DOMAIN c.v /\ Truthy(c.v.cpt) THEN PyStr(c.v.cpt) ELSE <<>>

\* the claim's service label, trimmed and lower-cased, empty when absent
ClaimLabel(c) ==
    IF "service" \in DOMAIN c.v /\ c.v.service.t = "str" THEN Lower(Strip(c.v.service.v)) ELSE <<>>

CoveredCptStrings(k) == { PyStr(e) : e \in EpisodeList(k, "covered_cpts") }

CoveredLabels(k) ==
    { Lower(Strip(IF Truthy(e) THEN PyStr(e) ELSE <<>>)) : e \in EpisodeList(k, "covered_services") }

CptIsMember(c, k) == ClaimCpt(c) \in CoveredCptStrings(k)

ServiceIsRelated(c, k) == \E cov \in CoveredLabels(k) : LabelsRelated(ClaimLabel(c), cov)

\* C1 as stated (a label being a non-empty one): is_in_bundle holds iff the
\* claim's stringified CPT, the empty string when absent, is a member of the
\* stringified covered CPTs, or the claim's label is related to some covered
\* label by substring, shared token or alias
C1_AsStated ==
    pc = "returned" =>
        (match.is_in_bundle <=>
            \/ CptIsMember(pt_claim, contract)
            \/ ClaimLabel(pt_claim) # <<>> /\ ServiceIsRelated(pt_claim, contract))

\* C1 amended: is_in_bundle holds iff the claim's stringified CPT is non-empty
\* and a member of the stringified covered CPTs, or the claim's normalized
\* service label is non-empty and related to some covered label by substring
\* containment in either direction, a shared token, or an alias; a claim with
\* neither service nor CPT is never in-bundle
C1_InBundleIff ==
    pc = "returned" =>
        /\ match.is_in_bundle <=>
             \/ ClaimCpt(pt_claim) # <<>> /\ CptIsMember(pt_claim, contract)
             \/ ClaimLabel(pt_claim) # <<>> /\ ServiceIsRelated(pt_claim, contract)
        /\ (ClaimCpt(pt_claim) = <<>> /\ ClaimLabel(pt_claim) = <<>>) => ~match.is_in_bundle

\* C1 witness: a claim in the bundle through an alias only (its CPT is not
\* covered and its own label is unrelated to every covered label)
C1_Witness ==
    /\ pc = "returned"
    /\ match.is_in_bundle
    /\ ~CptIsMember(pt_claim, contract)
    /\ ClaimLabel(pt_claim) # <<>>
    /\ \A cov \in CoveredLabels(contract) :
          LET l == ClaimLabel(pt_claim)
          IN  ~(IsSubstring(l, cov) \/ IsSubstring(cov, l) \/ SharesToken(l, cov))

\* the defaults C8 names, for the contract of the call
HasDefaults(m, k) ==
    LET Section(nm) == IF nm \in DOMAIN k.v /\ k.v[nm].t = "dict" THEN k.v[nm].v ELSE <<>>
    IN  /\ m.status = "ok"
        /\ "provider_contract_id" \notin DOMAIN Section("provider_agreement")
              => m.contract_id = Id("UNKNOWN")
        /\ "payer" \notin DOMAIN Section("plan") => m.plan_name = Id("")
        /\ "plan_id" \notin DOMAIN Section("plan") => m.plan_id = Id("")
        /\ "product_type" \notin DOMAIN Section("plan") => m.product_type = Id("")
        /\ "episode_code" \notin DOMAIN Section("episode") => m.episode_code = Id("")
        /\ EpisodeList(k, "covered_services") = {} => m.debug.svc_matched_terms = <<>>
        /\ EpisodeList(k, "covered_cpts") = {} => m.debug.covered_cpts = <<>>

\* C8: the evaluator never raises, whatever section or field of the contract
\* is missing or malformed, and returns a status "ok" result with the defaults
C8_NeverRaises ==
    /\ pc # "raised"
    /\ pc = "returned" => HasDefaults(match, contract)

----------------------------------------------------------------------------
(* A direct call of recommendation_agent(pt_claim, match) *)

MatchStatusParts == { <<>>, [status |-> "ok"], [status |-> "error"], [status |-> "skipped"] }
MatchBundleParts == { <<>>, [is_in_bundle |-> TRUE], [is_in_bundle |-> FALSE] }
MatchTermsParts ==
    { <<>>, [matched_terms |-> <<>>], [matched_terms |-> <<physical_therapy>>],
      [matched_terms |-> <<physical_therapy, c_97110>>] }
MatchIdParts ==
    { [contract_id |-> Id("UNKNOWN")],
      [ contract_id |-> Id("PC-001"), plan_id |-> Id("PPO-100"), plan_name |-> Id("Acme Health"),
        product_type |-> Id("PPO"), episode_code |-> Id("EP-KNEE") ] }
MatchEvidenceParts ==
    { <<>>, [evidence |-> Text(<<Id("Matched by CPT or service under "), Id("EP-KNEE"), Id(".")>>)] }

\* match results as any upstream stage may hand them over
MatchInputs ==
    { Merge(Merge(Merge(Merge(i, s), b), m), e) :
        i \in MatchIdParts, s \in MatchStatusParts, b \in MatchBundleParts,
        m \in MatchTermsParts, e \in MatchEvidenceParts }

InitReco ==
    /\ pc = "recommend"
    /\ pt_claim = Dict([service |-> Str(s_PT_Rehab), cpt |-> Str(c_97110)])
    /\ match \in MatchInputs
    /\ claim = None
    /\ intake = NoResult
    /\ contract = None
    /\ contracts = None
    /\ reco = NoResult
    /\ decision = None
    /\ response = NoResult

Recommend ==
    /\ pc = "recommend"
    /\ reco' = recommendation_agent(pt_claim, match)
    /\ pc' = "returned"
    /\ UNCHANGED <<claim, intake, pt_claim, contract, contracts, match, decision, response>>

NextReco == Recommend

SpecReco == InitReco /\ [][NextReco]_vars

----------------------------------------------------------------------------
(* A direct call of provider_response_agent(reco, decision) *)

DecisionArgs ==
    { None, EmptyStr, Str(d_PAY), Str(d_pay), Str(d_Reject), Str(d_adjust),
      Str(d_HOLD), Str(d_pay_padded) }
RecoDecisionParts ==
    { <<>>, [decision |-> None], [decision |-> Str(d_DENY)], [decision |-> Str(d_approve)],
      [decision |-> Str(d_Reject)], [decision |-> EmptyStr] }
RecoOutcomeParts ==
    { <<>>, [outcome |-> Str(d_adjust)], [outcome |-> Str(d_underscore)] }
RecoBodyParts ==
    { [reason |-> Id("Service not included in covered bundle terms.")],
      [ reason |-> Id("Service included in the episode bundle; bill under the episode."),
        evidence |-> Text(<<Id("Matched by CPT or service under "), Id("EP-KNEE"), Id(".")>>),
        matched_terms |-> <<physical_therapy, <<" ">>, c_97110>>,
        contract_id |-> Id("PC-001"), plan_id |-> Id("PPO-100"), plan_name |-> Id("Acme Health"),
        product_type |-> Id("PPO"), episode_code |-> Id("EP-KNEE") ] }

RecoInputs ==
    { Merge(Merge(b, d), o) : b \in RecoBodyParts, d \in RecoDecisionParts, o \in RecoOutcomeParts }

InitDraft ==
    /\ pc = "respond"
    /\ reco \in RecoInputs
    /\ decision \in DecisionArgs
    /\ claim = None
    /\ intake = NoResult
    /\ pt_claim = None
    /\ contract = None
    /\ contracts = None
    /\ match = NoResult
    /\ response = NoResult

Respond ==
    /\ pc = "respond"
    /\ response' = provider_response_agent(reco, decision)
    /\ pc' = "returned"
    /\ UNCHANGED <<claim, intake, pt_claim, contract, contracts, match, reco, decision>>

NextDraft == Respond

SpecDraft == InitDraft /\ [][NextDraft]_vars

----------------------------------------------------------------------------
(* A direct call of claim_intake_agent(claim) *)

ClaimServiceParts ==
    { <<>>, [service |-> EmptyStr], [service |-> None], [service |-> Str(s_PT_Rehab)] }
ClaimCptParts ==
    { <<>>, [cpt |-> IntV(c_97110)], [cpt |-> Str(c_90686)], [cpt |-> EmptyStr],
      [cpt_code |-> IntV(c_97112)] }
ClaimDiagnosisParts ==
    { <<>>, [diagnosis |-> Id("M17.11")], [diagnosis |-> List(<<Id("M17.11")>>)],
      [dx |-> Id("Z23")] }
ClaimLinesParts ==
    { <<>>, [lines |-> Id("97110 x1")],
      [lines |-> List(<<Dict([cpt |-> IntV(c_90686)]), Id("note")>>)],
      [lines |-> List(<<Id("97110")>>)] }

\* claims as an uploader may hand them over
IntakeClaims ==
    { Dict(Merge(Merge(Merge(sv, cp), dg), ln)) :
        sv \in ClaimServiceParts, cp \in ClaimCptParts,
        dg \in ClaimDiagnosisParts, ln \in ClaimLinesParts }

InitIntake ==
    /\ pc = "intake"
    /\ claim \in IntakeClaims
    /\ intake = NoResult
    /\ pt_claim = None
    /\ contract = None
    /\ contracts = None
    /\ match = NoResult
    /\ reco = NoResult
    /\ decision = None
    /\ response = NoResult

\* the call returns; pt_claim is the normalized claim of the result
Normalize ==
    /\ pc = "intake"
    /\ intake' = claim_intake_agent(claim)
    /\ ~Raised(intake')
    /\ pt_claim' = intake'.normalized_claim
    /\ pc' = "returned"
    /\ UNCHANGED <<claim, contract, contracts, match, reco, decision, response>>

\* the call raises
NormalizeRaises ==
    /\ pc = "intake"
    /\ intake' = claim_intake_agent(claim)
    /\ Raised(intake')
    /\ pc' = "raised"
    /\ UNCHANGED <<claim, pt_claim, contract, contracts, match, reco, decision, response>>

NextIntake == Normalize \/ NormalizeRaises

SpecIntake == InitIntake /\ [][NextIntake]_vars

----------------------------------------------------------------------------
(* run_pipeline(claim) of chat_ui.py, over the loaded catalog CONTRACTS *)

MaxContracts == 2

\* uploaded claims
R_pt == Dict([claim_id |-> Id("CLM-1"), service |-> Str(s_PT_Rehab), cpt |-> Str(c_97110)])
R_office == Dict([claim_id |-> Id("CLM-2"), service |-> Str(s_office_visit), cpt |-> Str(c_99213)])
R_flu == Dict([service |-> Str(s_Flu_Shot)])
R_cptonly == Dict([cpt |-> IntV(c_97110)])
R_lines == Dict([lines |-> List(<<Dict([cpt |-> IntV(c_90686)])>>)])
R_blank == Dict([service |-> EmptyStr, cpt |-> Str(c_97112)])
R_knee == Dict([description |-> Str(s_knee_surgery), diagnosis |-> Id("M17.11")])
R_empty == EmptyDict
R_badlines == Dict([lines |-> List(<<Id("97110")>>)])
UploadedClaims ==
    {R_pt, R_office, R_flu, R_cptonly, R_lines, R_blank, R_knee, R_empty, R_badlines}

\* contracts a list or a named mapping is drawn from
CatalogPool == {K_pt, K_pt2, K_knee, K_flu, K_nullplan}

\* names of a mapping's entries, in the order the entries are inserted
CatalogNames == <<"north", "east", "south", "west", "centre">>

ContractSeqs == UNION { [1..n -> CatalogPool] : n \in 0..MaxContracts }

NamedCatalog(ks) ==
    ODict([nm \in {CatalogNames[i] : i \in 1..Len(ks)} |-> ks[IndexIn(CatalogNames, nm)]],
          SubSeq(CatalogNames, 1, Len(ks)))

SectionOrder == <<"plan", "provider_agreement", "episode">>

\* one contract record given as the whole catalog: its keys are its sections
NestedRecord(k) ==
    ODict(k.v, SelectSeq(SectionOrder, LAMBDA nm : nm \in DOMAIN k.v))

\* the same with a top-level contract_id key
FlatRecord(k) ==
    ODict(Merge(k.v, [contract_id |-> Id("FLAT-1")]),
          SelectSeq(SectionOrder, LAMBDA nm : nm \in DOMAIN k.v) \o <<"contract_id">>)

Catalogs ==
    {None}
      \cup { List(ks) : ks \in ContractSeqs }
      \cup { NamedCatalog(ks) : ks \in ContractSeqs }
      \cup { NestedRecord(k) : k \in EvalContracts }
      \cup { FlatRecord(k) : k \in EvalContracts }

Init ==
    /\ pc = "intake"
    /\ claim \in UploadedClaims
    /\ contracts \in Catalogs
    /\ intake = NoResult
    /\ pt_claim = None
    /\ contract = None
    /\ match = NoResult
    /\ reco = NoResult
    /\ decision = None
    /\ response = NoResult

\* lines 135-136
Intake ==
    /\ pc = "intake"
    /\ intake' = claim_intake_agent(claim)
    /\ ~Raised(intake')
    /\ pt_claim' = Get(intake', "normalized_claim", claim)
    /\ pc' = "match"
    /\ UNCHANGED <<claim, contract, contracts, match, reco, decision, response>>

IntakeRaises ==
    /\ pc = "intake"
    /\ intake' = claim_intake_agent(claim)
    /\ Raised(intake')
    /\ pc' = "raised"
    /\ UNCHANGED <<claim, pt_claim, contract, contracts, match, reco, decision, response>>

\* line 138
Match ==
    /\ pc = "match"
    /\ match' = bundled_match_agent(pt_claim, contracts)
    /\ ~Raised(match')
    /\ pc' = "recommend"
    /\ UNCHANGED <<claim, intake, pt_claim, contract, contracts, reco, decision, response>>

MatchRaises ==
    /\ pc = "match"
    /\ match' = bundled_match_agent(pt_claim, contracts)
    /\ Raised(match')
    /\ pc' = "raised"
    /\ UNCHANGED <<claim, intake, pt_claim, contract, contracts, reco, decision, response>>

\* line 139
PipelineRecommend ==
    /\ pc = "recommend"
    /\ reco' = recommendation_agent(pt_claim, match)
    /\ pc' = "respond"
    /\ UNCHANGED <<claim, intake, pt_claim, contract, contracts, match, decision, response>>

\* lines 141-149: the decision is upper-cased, written back into the
\* recommendation and handed to the drafter
PipelineRespond ==
    /\ pc = "respond"
    /\ LET d == Str(Upper(Or(Or(Get(reco, "decision", None), Get(reco, "outcome", None)),
                             Str(d_underscore)).v))
           r == Merge(reco, [decision |-> d])
       IN  /\ decision' = d
           /\ response' = provider_response_agent(r, d)
           /\ reco' = r
    /\ pc' = "done"
    /\ UNCHANGED <<claim, intake, pt_claim, contract, contracts, match>>

Next ==
    \/ Intake
    \/ IntakeRaises
    \/ Match
    \/ MatchRaises
    \/ PipelineRecommend
    \/ PipelineRespond

Spec == Init /\ [][Next]_vars

----------------------------------------------------------------------------
(* Direct calls of the three stages: bundled_match_agent(pt_claim, contracts),
   recommendation_agent(pt_claim, match), provider_response_agent(reco, decision) *)

SelectClaims ==
    { Dict([service |-> Str(s_PT_Rehab), cpt |-> Str(c_97110)]),
      Dict([service |-> Str(s_office_visit), cpt |-> Str(c_99213)]),
      Dict([service |-> Str(s_Flu_Shot)]),
      EmptyDict }

InitSelect ==
    /\ pc = "select"
    /\ pt_claim \in SelectClaims
    /\ contracts \in Catalogs
    /\ claim = None
    /\ intake = NoResult
    /\ contract = None
    /\ match = NoResult
    /\ reco = NoResult
    /\ decision = None
    /\ response = NoResult

Select ==
    /\ pc = "select"
    /\ match' = bundled_match_agent(pt_claim, contracts)
    /\ ~Raised(match')
    /\ pc' = "selected"
    /\ UNCHANGED <<claim, intake, pt_claim, contract, contracts, reco, decision, response>>

SelectRaises ==
    /\ pc = "select"
    /\ match' = bundled_match_agent(pt_claim, contracts)
    /\ Raised(match')
    /\ pc' = "raised"
    /\ UNCHANGED <<claim, intake, pt_claim, contract, contracts, reco, decision, response>>

InitStages == InitSelect \/ InitReco \/ InitDraft

NextStages ==
    \/ Select
    \/ SelectRaises
    \/ Recommend
    \/ Respond

SpecStages == InitStages /\ [][NextStages]_vars

----------------------------------------------------------------------------
(* Properties of the selector and of the pipeline, under Spec *)

\* the selector has returned its result and no later stage has touched it
Selected == pc = "recommend"

\* a mapping of names to contracts or a sequence of contracts
IsCollection(ks) == ks.t = "list" \/ (ks.t = "dict" /\ "contract_id" \notin DOMAIN ks.v)

\* the contracts of a collection, in list order or mapping value order
Supplied(ks) == IF ks.t = "list" THEN ks.v ELSE [i \in 1..Len(ks.order) |-> ks.v[ks.order[i]]]

\* the evaluation of the i-th supplied contract
EvaluationOf(i) == _evaluate_against_contract(pt_claim, Supplied(contracts)[i])

\* evaluation a ranks strictly above evaluation b
Outranks(a, b) ==
    \/ a.is_in_bundle /\ ~b.is_in_bundle
    \/ a.is_in_bundle = b.is_in_bundle /\ Len(a.matched_terms) > Len(b.matched_terms)

\* the evaluations of the supplied contracts, in the order supplied
Evaluations == [i \in 1..Len(Supplied(contracts)) |-> EvaluationOf(i)]

\* the positions of evs whose evaluation no other evaluation outranks
MaximalIn(evs) ==
    { i \in 1..Len(evs) : \A j \in 1..Len(evs) : ~Outranks(evs[j], evs[i]) }

\* the positions whose evaluation no other evaluation outranks
MaximalPositions == MaximalIn(Evaluations)

Rearrangements(n) == { f \in [1..n -> 1..n] : \A i, j \in 1..n : f[i] = f[j] => i = j }

\* the collection with its contracts rearranged by f
Permuted(ks, f) ==
    IF ks.t = "list" THEN List([i \in 1..Len(ks.v) |-> ks.v[f[i]]])
    ELSE ODict(ks.v, [i \in 1..Len(ks.order) |-> ks.order[f[i]]])

\* C2: the result returned for a non-empty collection is outranked by the
\* evaluation of no supplied contract, and when a single contract attains the
\* maximal rank its evaluation is returned for every permutation of the input
C2_ReturnsMaximal ==
    (Selected /\ IsCollection(contracts) /\ Supplied(contracts) # <<>>) =>
        LET evs == Evaluations
            top == MaximalIn(evs)
        IN  /\ \A i \in 1..Len(evs) : ~Outranks(evs[i], match)
            /\ \A i \in top :
                  top = {i} =>
                      \A f \in Rearrangements(Len(evs)) :
                          bundled_match_agent(pt_claim, Permuted(contracts, f)) = evs[i]

\* C2 witness: three-way choice in which the in-bundle contract with the most
\* matched terms is neither first nor alone in the bundle, and is returned
C2_Witness ==
    /\ Selected /\ IsCollection(contracts) /\ Len(Supplied(contracts)) >= 2
    /\ MaximalPositions = {2}
    /\ EvaluationOf(1).is_in_bundle
    /\ match = EvaluationOf(2)

\* C3: when several supplied contracts attain the maximal rank, the result of
\* the first of them in the original order is returned
C3_FirstOfTies ==
    (Selected /\ IsCollection(contracts) /\ Supplied(contracts) # <<>>) =>
        LET evs == Evaluations
            top == MaximalIn(evs)
        IN  \A i \in top : (\A j \in top : i <= j) => match = evs[i]

\* C3 witness: two contracts with different results tie at the maximal rank
\* and the earlier one is returned
C3_Witness ==
    /\ Selected /\ IsCollection(contracts) /\ Len(Supplied(contracts)) >= 2
    /\ {1, 2} \subseteq MaximalPositions
    /\ EvaluationOf(1) # EvaluationOf(2)
    /\ EvaluationOf(1).is_in_bundle
    /\ match = EvaluationOf(1)

\* a single contract record of the three-section shape, its provider
\* agreement carrying provider_contract_id
IsContractRecord(ks) ==
    /\ ks.t = "dict"
    /\ {"plan", "provider_agreement", "episode"} \subseteq DOMAIN ks.v
    /\ ks.v.provider_agreement.t = "dict"
    /\ "provider_contract_id" \in DOMAIN ks.v.provider_agreement.v

\* C4: given a single three-section contract record, the selector returns
\* exactly what the evaluator returns for that claim and that contract
C4_SingleRecordDelegates ==
    (Selected /\ IsContractRecord(contracts)) =>
        LET e == _evaluate_against_contract(pt_claim, contracts)
        IN  /\ ~Raised(e)
            /\ match.contract_id = e.contract_id
            /\ match.plan_id = e.plan_id
            /\ match.episode_code = e.episode_code
            /\ match.is_in_bundle = e.is_in_bundle
            /\ match.matched_terms = e.matched_terms

\* an empty list, an empty mapping, or null
IsEmptyCatalog(ks) ==
    \/ ks = None
    \/ ks.t = "list" /\ ks.v = <<>>
    \/ ks.t = "dict" /\ DOMAIN ks.v = {}

\* the selector has been called (it returned or raised)
AfterMatch == pc \in {"recommend", "respond", "done"} \/ (pc = "raised" /\ ~Raised(intake))

\* C5: for an empty list, an empty mapping or null the selector returns, and
\* never raises, the no_contracts error result
C5_NoContracts ==
    (AfterMatch /\ IsEmptyCatalog(contracts)) =>
        /\ pc # "raised"
        /\ match.status = "error"
        /\ match.reason = "no_contracts"
        /\ match.is_in_bundle = FALSE
        /\ match.contract_id = Id("UNKNOWN")
        /\ match.matched_terms = <<>>
        /\ match.evidence = Id("No contracts supplied.")

\* C5 witness: the selector has returned for a null catalog
C5_Witness ==
    /\ Selected
    /\ contracts = None
    /\ match.status = "error"

\* C10 as stated: the selector's no_contracts error result is terminal, the
\* decision mapper is not invoked on it and no decision is derived from it
C10_ErrorIsTerminal ==
    (AfterMatch /\ IsEmptyCatalog(contracts)) => (reco = NoResult /\ response = NoResult)

\* C10 amended: in a pipeline run over an empty contract set the selector's
\* no_contracts error result is handed to the decision mapper like any other
\* result; the mapper derives PAY from it (not in the bundle, no matched
\* terms, contract "UNKNOWN") and the drafter drafts the PAY response
C10_ErrorIsMappedToPay ==
    (pc = "done" /\ IsEmptyCatalog(contracts)) =>
        /\ match.status = "error" /\ match.reason = "no_contracts"
        /\ reco.trace.user_input.bundled_match = match
        /\ reco.decision = Str(d_PAY)
        /\ reco.reason = Id("Service not included in covered bundle terms.")
        /\ reco.matched_terms = <<>>
        /\ reco.contract_id = Id("UNKNOWN")
        /\ response.status = "ok"
        /\ response.decision = Str(d_PAY)

\* C10 witness: a finished run over an empty list of contracts
C10_Witness ==
    /\ pc = "done"
    /\ contracts = List(<<>>)
    /\ match.status = "error"
    /\ reco.decision = Str(d_PAY)

----------------------------------------------------------------------------
(* Properties of the decision mapper, under SpecReco *)

\* C6: status "skipped" gives PAY, checked first; otherwise is_in_bundle gives
\* REJECT; otherwise PAY; the confidence is 0.9 and the decision is never
\* DENY or ADJUST
C6_DecisionTable ==
    pc = "returned" =>
        LET skipped == "status" \in DOMAIN match /\ match.status = "skipped"
            in_bundle == "is_in_bundle" \in DOMAIN match /\ match.is_in_bundle
        IN  /\ skipped => reco.decision = Str(d_PAY)
            /\ (~skipped /\ in_bundle) => reco.decision = Str(d_REJECT)
            /\ (~skipped /\ ~in_bundle) => reco.decision = Str(d_PAY)
            /\ reco.confidence = Float("0.9")
            /\ reco.decision \notin {Str(d_DENY), Str(d_ADJUST)}

\* C6 witness: a skipped match that is in the bundle is paid
C6_Witness ==
    /\ pc = "returned"
    /\ "status" \in DOMAIN match /\ match.status = "skipped"
    /\ "is_in_bundle" \in DOMAIN match /\ match.is_in_bundle
    /\ reco.decision = Str(d_PAY)

CarriedFields == {"evidence", "contract_id", "plan_id", "plan_name", "product_type", "episode_code"}

\* C7 as stated: in every branch matched_terms, evidence and the identifiers
\* of the recommendation equal those of the match result
C7_AllCarried ==
    pc = "returned" =>
        /\ \A f \in CarriedFields : reco[f] = Get(match, f, None)
        /\ reco.matched_terms = Get(match, "matched_terms", <<>>)

\* C7 amended: in every branch evidence, contract_id, plan_id, plan_name,
\* product_type and episode_code equal those of the match result; matched_terms
\* equals the match result's in the in-bundle and not-in-bundle branches and
\* is the empty list in the skipped branch
C7_CarriedExceptSkippedTerms ==
    pc = "returned" =>
        /\ \A f \in CarriedFields : reco[f] = Get(match, f, None)
        /\ reco.matched_terms =
              IF "status" \in DOMAIN match /\ match.status = "skipped" THEN <<>>
              ELSE Get(match, "matched_terms", <<>>)

\* C7 witness: a skipped match with matched terms, whose recommendation
\* carries the identifiers and no terms
C7_Witness ==
    /\ pc = "returned"
    /\ "status" \in DOMAIN match /\ match.status = "skipped"
    /\ Get(match, "matched_terms", <<>>) # <<>>
    /\ reco.matched_terms = <<>>
    /\ reco.contract_id = Id("PC-001")

----------------------------------------------------------------------------
(* Properties of the drafter, under SpecDraft *)

\* the decision the call is given: the argument, else the recommendation's
\* decision, else its outcome; None when all are absent or empty
GivenDecision ==
    IF Truthy(decision) THEN decision
    ELSE IF "decision" \in DOMAIN reco /\ Truthy(reco.decision) THEN reco.decision
    ELSE IF "outcome" \in DOMAIN reco /\ Truthy(reco.outcome) THEN reco.outcome
    ELSE None

\* d is, letter case aside, one of PAY / REJECT / DENY / ADJUST
IsValidDecision(d) == d # None /\ \E v \in VALID : Lower(d.v) = Lower(v)

\* C9: an absent or invalid decision gives the missing_or_invalid_decision
\* error without a draft, and an ok response carries the upper-cased decision
\* that was given
C9_NoFabricatedDecision ==
    pc = "returned" =>
        /\ ~IsValidDecision(GivenDecision) =>
              /\ response.status = "error"
              /\ response.reason = "missing_or_invalid_decision"
              /\ "draft" \notin DOMAIN response
        /\ response.status = "ok" =>
              /\ IsValidDecision(GivenDecision)
              /\ response.decision = Str(Upper(GivenDecision.v))
        /\ IsValidDecision(GivenDecision) => response.status = "ok"

\* C9 witness: a lower-case decision taken from the recommendation's outcome
\* is drafted in upper case
C9_Witness ==
    /\ pc = "returned"
    /\ ~Truthy(decision)
    /\ GivenDecision = Str(d_adjust)
    /\ response.status = "ok"
    /\ response.decision = Str(d_ADJUST)

----------------------------------------------------------------------------
(* Properties of normalize_claim, under SpecIntake *)

\* the claim carries a CPT, or its first kept line does
CptPresentOrDerivable(c) ==
    Truthy(OrElseFirstLine(DictGet(c, "cpt", None), DictGet(c, "cpt_code", None),
                           _coerce_lines(DictGet(c, "lines", None))))

\* the claim has no service, or a null or empty one
ServiceMissingOrEmpty(c) == ~Truthy(DictGet(c, "service", None))

\* the label line 71 derives for the claim
DerivedService(c) ==
    _canon_service(Dict(Merge([lines |-> _coerce_lines(DictGet(c, "lines", None))], c.v)))

\* C11: the record normalize_claim returns has a list as diagnosis, a list of
\* dicts as lines, a string as cpt whenever a CPT is present or derivable, and
\* the derived label as service whenever the claim's service is missing or
\* empty, whatever the claim itself carries under those keys
C11_CanonicalShape ==
    pc = "returned" =>
        /\ pt_claim.v.diagnosis.t = "list"
        /\ pt_claim.v.lines.t = "list"
        /\ \A i \in 1..Len(pt_claim.v.lines.v) : pt_claim.v.lines.v[i].t = "dict"
        /\ CptPresentOrDerivable(claim) => pt_claim.v.cpt.t = "str"
        /\ ServiceMissingOrEmpty(claim) => pt_claim.v.service = DerivedService(claim)

----------------------------------------------------------------------------
(* Properties of the stages' audit records, under SpecStages *)

TraceFields == {"system_prompt", "user_input", "model_output", "parsed"}

\* r carries a trace of the four fields whose parsed record has, the trace
\* field itself apart, the fields of r with the same values
Traced(r) ==
    /\ "trace" \in DOMAIN r
    /\ DOMAIN r.trace = TraceFields
    /\ DOMAIN r.trace.parsed \ {"trace"} = DOMAIN r \ {"trace"}
    /\ \A k \in DOMAIN r \ {"trace"} : r.trace.parsed[k] = r[k]

SelectorReturned == pc = "selected"
MapperReturned == pc = "returned" /\ response = NoResult
DrafterReturned == pc = "returned" /\ response # NoResult

----------------------------------------------------------------------------
(* Properties of matched_terms, under SpecEval *)

\* the covered service labels of the contract, trimmed and lower-cased, in
\* list order
CoveredLabelSeq(k) ==
    IF "episode" \in DOMAIN k.v /\ k.v.episode.t = "dict"
       /\ "covered_services" \in DOMAIN k.v.episode.v
       /\ k.v.episode.v.covered_services.t = "list"
    THEN [i \in 1..Len(k.v.episode.v.covered_services.v) |->
            Lower(Strip(IF Truthy(k.v.episode.v.covered_services.v[i])
                        THEN PyStr(k.v.episode.v.covered_services.v[i]) ELSE <<>>))]
    ELSE <<>>

\* the covered labels the claim's label matches, in list order
MatchedLabels(c, k) ==
    SelectSeq(CoveredLabelSeq(k),
              LAMBDA cov : ClaimLabel(c) # <<>> /\ LabelsRelated(ClaimLabel(c), cov))

\* the claim's CPT matched
CptMatched(c, k) == ClaimCpt(c) # <<>> /\ CptIsMember(c, k)

\* C13: matched_terms is the sequence of the covered service labels that
\* matched, in covered-list order, followed by the claim's CPT if and only if
\* the CPT matched; the matched CPT is not also among the service entries
C13_TermsThenCpt ==
    pc = "returned" =>
        /\ match.matched_terms =
              MatchedLabels(pt_claim, contract)
                \o (IF CptMatched(pt_claim, contract) THEN <<ClaimCpt(pt_claim)>> ELSE <<>>)
        /\ CptMatched(pt_claim, contract)
              => ClaimCpt(pt_claim) \notin Range(MatchedLabels(pt_claim, contract))

----------------------------------------------------------------------------
(* A direct call of _evaluate_against_contract for a claim that names a label
   of SERVICE_SYNONYMS and a contract that covers one such label *)

\* the canonical names and synonyms of all groups
GroupLabels == UNION SynonymGroups

\* a label as written, in capitals, and with a capital first letter
CaseVariants(x) == {x, Upper(x), <<UpperChar(Head(x))>> \o Tail(x)}

AliasClaim(x) == Dict([service |-> Str(x)])

AliasContract(y) ==
    Dict([ plan |-> PlanAcme,
           provider_agreement |-> Dict([provider_contract_id |-> Id("PC-010")]),
           episode |-> Dict([ episode_code |-> Id("EP-ALIAS"),
                              covered_services |-> List(<<Str(y)>>),
                              covered_cpts |-> List(<<>>) ]) ])

InitAlias ==
    /\ pc = "evaluate"
    /\ pt_claim \in { AliasClaim(v) : v \in UNION { CaseVariants(x) : x \in GroupLabels } }
    /\ contract \in { AliasContract(y) : y \in GroupLabels }
    /\ claim = None
    /\ intake = NoResult
    /\ contracts = None
    /\ match = NoResult
    /\ reco = NoResult
    /\ decision = None
    /\ response = NoResult

NextAlias == EvaluateReturns

SpecAlias == InitAlias /\ [][NextAlias]_vars

\* the label of the claim of the call, and the label its contract covers
ClaimedLabel == pt_claim.v.service.v
CoveredLabel == contract.v.episode.v.covered_services.v[1].v

\* both labels are the canonical name or a synonym of one group
InSameGroup(x, y) == \E g \in SynonymGroups : x \in g /\ y \in g

\* C14: when the claim's label, whatever its letter case, and the only covered
\* label belong to the same synonym group, the claim matches the contract, and
\* so does the claim naming the covered label against a contract covering the
\* claim's label
C14_AliasSymmetric ==
    (pc = "returned" /\ InSameGroup(Lower(ClaimedLabel), CoveredLabel)) =>
        /\ match.is_in_bundle
        /\ match.matched_terms = <<CoveredLabel>>
        /\ _evaluate_against_contract(AliasClaim(CoveredLabel),
                                      AliasContract(Lower(ClaimedLabel))).is_in_bundle

\* C14 witness: "FLU SHOT" has matched a contract covering only "influenza
\* immunization", two synonyms that share neither a substring nor a token
C14_Witness ==
    /\ pc = "returned"
    /\ ClaimedLabel = Upper(flu_shot)
    /\ CoveredLabel = influenza_immunization
    /\ match.is_in_bundle

----------------------------------------------------------------------------
(* Properties of the recommendation derived in a pipeline run, under Spec *)

\* the decision mapper has returned (the drafter may have run as well)
Recommended == pc \in {"respond", "done"}

\* C15: whatever the claim and the catalog, the selector's result is in the
\* bundle exactly when its matched_terms is non-empty, the recommendation
\* derived from it is REJECT exactly when its matched_terms is non-empty, a
\* REJECT cites at least one matched term, and the drafter fed with the
\* recommendation does not end in its missing_or_invalid_decision error
C15_RejectIffMatchedTerms ==
    /\ (Selected \/ Recommended) => (match.is_in_bundle <=> match.matched_terms # <<>>)
    /\ Recommended =>
          /\ reco.decision = Str(d_REJECT) <=> match.matched_terms # <<>>
          /\ reco.decision = Str(d_REJECT) => Len(reco.matched_terms) >= 1
    /\ pc = "done" =>
          /\ response.status = "ok"
          /\ response.decision = reco.decision

\* C15 witness: a run over a two-contract catalog ended in a drafted REJECT
\* for a claim without service label whose only matched term is its CPT
C15_Witness ==
    /\ pc = "done"
    /\ IsCollection(contracts) /\ Len(Supplied(contracts)) = 2
    /\ match.matched_terms = <<match.cpt>>
    /\ match.service = <<>>
    /\ reco.decision = Str(d_REJECT)
    /\ response.status = "ok"

====
